---- MODULE Spec2Model ----
(***************************************************************************)
(* Network contagion: topology generation (_generate_graph) followed by    *)
(* the synchronous best-response dynamics of NetworkContagion.compute.     *)
(* Random draws are nondeterministic choices over the outcomes the draw    *)
(* can produce.  Python lists are sequences (order and duplicates kept).   *)
(***************************************************************************)
EXTENDS Integers, Sequences, FiniteSets, TLC

\* ------------------------------------------------------------------ bounds
MaxN == 6
MaxGenN == 7
MaxRandomN == 4
MaxSkips == 1
MaxRewires == 2
MaxRounds == 5
Around == 2
Window == 6
MaxConcN == 3
MaxTroops == 5
MaxFields == 4

\* ------------------------------------------------------- program constants
TargetAvgDegree == 6
K == 4
M == 2
CoreSize == 3
RateScale == 10000

KnownTopologies == {"random_erdos_renyi", "small_world", "scale_free", "grid"}
Topologies == KnownTopologies \cup {"hexagonal"}

VARIABLES
    n,            \* config n_nodes
    topology,     \* config topology
    init_frac,    \* config initial_adopters, a rational <<num, den>>
    rounds,       \* config rounds
    payoff,       \* config <<payoff_AA, payoff_BB, payoff_AB>>
    adj,          \* adjacency: node -> list of neighbours
    pc,           \* position in _generate_graph / compute
    i,            \* outer loop index of the running generator
    j,            \* inner loop index (j of Erdos-Renyi, idx of rewiring)
    lim,          \* len(adj[i]) taken when the rewiring inner loop starts
    targets,      \* scale-free: targets chosen so far for node i
    degree_sum,   \* scale-free: degree counters
    skips,        \* number of Erdos-Renyi pairs left out so far
    rewires,      \* number of rewirings performed so far
    strategies,   \* current strategy vector (0 = A, 1 = B)
    initial,      \* the strategy vector as initialised (line 148)
    r,            \* number of the last completed round
    round_data,   \* the trace: one record per round
    summary,      \* the summary of the result
    rng,          \* state of the module-level random source (line 3)
    inv,          \* concurrent invocations drawing from that one source
    blotto        \* Colonel Blotto: one call of _random_allocation

vars == <<n, topology, init_frac, rounds, payoff, adj, pc, i, j, lim, targets,
          degree_sum, skips, rewires, strategies, initial, r, round_data,
          summary, rng, inv, blotto>>

config == <<n, topology, init_frac, rounds, payoff>>
dynvars == <<strategies, initial, r, round_data, summary>>
others == <<rng, inv, blotto>>

Nodes == 0 .. (n - 1)

\* ---------------------------------------------------------- list helpers
Min(a, b) == IF a <= b THEN a ELSE b
Max(a, b) == IF a >= b THEN a ELSE b

Elems(s) == {s[k] : k \in 1 .. Len(s)}

\* list.remove(x): drop the first occurrence of x
RECURSIVE ListRemove(_, _)
ListRemove(s, x) ==
    IF s = <<>> THEN <<>>
    ELSE IF Head(s) = x THEN Tail(s)
    ELSE <<Head(s)>> \o ListRemove(Tail(s), x)

RECURSIVE SetToList(_)
SetToList(S) ==
    IF S = {} THEN <<>>
    ELSE LET lo == CHOOSE x \in S : \A y \in S : x <= y
         IN <<lo>> \o SetToList(S \ {lo})

\* adj[a].append(b); adj[b].append(a)
AddEdge(g, a, b) ==
    LET g1 == [g EXCEPT ![a] = Append(@, b)]
    IN [g1 EXCEPT ![b] = Append(@, a)]

\* int(n ** 0.5)
ISqrt(m) == CHOOSE s \in 0 .. m : s * s <= m /\ (s + 1) * (s + 1) > m

\* ------------------------------------------------------------ generation
EntryPc(t) ==
    IF t = "random_erdos_renyi" THEN "er"
    ELSE IF t = "small_world" THEN "sw_lattice"
    ELSE IF t = "scale_free" THEN "sf_core"
    ELSE "grid"

\* Erdos-Renyi: one (i, j) pair of the double loop, lines 16-21.
\* random.random() < p can fail only when p = min(1, 6/n) < 1.
ErdosRenyiStep ==
    /\ pc = "er"
    /\ j < n
    /\ \E include \in BOOLEAN :
         /\ (~include) => (TargetAvgDegree < n /\ skips < MaxSkips)
         /\ adj' = IF include THEN AddEdge(adj, i, j) ELSE adj
         /\ skips' = IF include THEN skips ELSE skips + 1
    /\ IF j + 1 < n
         THEN i' = i /\ j' = j + 1
         ELSE i' = i + 1 /\ j' = i + 2
    /\ UNCHANGED <<others, config, pc, lim, targets, degree_sum, rewires, dynvars>>

ErdosRenyiDone ==
    /\ pc = "er"
    /\ j >= n
    /\ pc' = "dedup"
    /\ UNCHANGED <<others, config, adj, i, j, lim, targets, degree_sum, skips,
                   rewires, dynvars>>

\* Small world: the ring lattice for node i, lines 25-29
RECURSIVE Lattice(_, _, _)
Lattice(g, node, jj) ==
    IF jj > K \div 2 THEN g
    ELSE Lattice(AddEdge(g, node, (node + jj) % n), node, jj + 1)

\* first node at or after `node` whose rewiring inner loop is not empty
RECURSIVE NextRewireNode(_, _)
NextRewireNode(g, node) ==
    IF node >= n THEN n
    ELSE IF Len(g[node]) > 0 THEN node
    ELSE NextRewireNode(g, node + 1)

SmallWorldLattice ==
    /\ pc = "sw_lattice"
    /\ i < n
    /\ adj' = Lattice(adj, i, 1)
    /\ IF i + 1 < n
         THEN /\ i' = i + 1
              /\ UNCHANGED <<pc, lim>>
         ELSE /\ i' = NextRewireNode(adj', 0)
              /\ pc' = "sw_rewire"
              /\ lim' = IF i' < n THEN Len(adj'[i']) ELSE 0
    /\ j' = 0
    /\ UNCHANGED <<others, config, targets, degree_sum, skips, rewires, dynvars>>

\* Rewire without the back-reference adj[new_target].append(i)
RewireOneSided(g, node, idx, new_target) ==
    IF new_target # node /\ new_target \notin Elems(g[node])
      THEN LET old == g[node][idx + 1]
               g1 == [g EXCEPT ![node][idx + 1] = new_target]
           IN IF node \in Elems(g1[old])
                THEN [g1 EXCEPT ![old] = ListRemove(@, node)]
                ELSE g1
      ELSE g

\* Rewire leaving node in the old neighbour's list
RewireKeepOld(g, node, idx, new_target) ==
    IF new_target # node /\ new_target \notin Elems(g[node])
      THEN LET g1 == [g EXCEPT ![node][idx + 1] = new_target]
           IN [g1 EXCEPT ![new_target] = Append(@, node)]
      ELSE g

\* lines 35-40, with new_target already drawn
Rewire(g, node, idx, new_target) ==
    IF new_target # node /\ new_target \notin Elems(g[node])
      THEN LET old == g[node][idx + 1]
               g1 == [g EXCEPT ![node][idx + 1] = new_target]
               g2 == IF node \in Elems(g1[old])
                       THEN [g1 EXCEPT ![old] = ListRemove(@, node)]
                       ELSE g1
           IN [g2 EXCEPT ![new_target] = Append(@, node)]
      ELSE g

\* Small world: one (i, idx) step of the rewiring loops, lines 31-40.
\* adj[i][idx] with idx past the end of the list is an IndexError.
SmallWorldRewire ==
    /\ pc = "sw_rewire"
    /\ i < n
    /\ \E hit \in BOOLEAN, new_target \in Nodes :
         LET valid == hit /\ new_target # i /\ new_target \notin Elems(adj[i])
         IN /\ valid => rewires < MaxRewires
            /\ IF valid /\ j >= Len(adj[i])
                 THEN /\ pc' = "error"
                      /\ UNCHANGED <<adj, i, j, lim, rewires>>
                 ELSE /\ adj' = IF valid THEN Rewire(adj, i, j, new_target)
                                ELSE adj
                      /\ rewires' = IF valid THEN rewires + 1 ELSE rewires
                      /\ IF j + 1 < lim
                           THEN /\ j' = j + 1
                                /\ UNCHANGED <<i, lim>>
                           ELSE /\ i' = NextRewireNode(adj', i + 1)
                                /\ j' = 0
                                /\ lim' = IF i' < n THEN Len(adj'[i']) ELSE 0
                      /\ UNCHANGED pc
    /\ UNCHANGED <<others, config, targets, degree_sum, skips, dynvars>>

SmallWorldDone ==
    /\ pc = "sw_rewire"
    /\ i >= n
    /\ pc' = "dedup"
    /\ UNCHANGED <<others, config, adj, i, j, lim, targets, degree_sum, skips,
                   rewires, dynvars>>

\* Scale free: the complete core on min(3, n) nodes, lines 44-47
CorePairs == {p \in Nodes \X Nodes : p[1] < p[2] /\ p[2] < Min(CoreSize, n)}

RECURSIVE AddEdges(_, _)
AddEdges(g, pairs) ==
    IF pairs = {} THEN g
    ELSE LET p == CHOOSE q \in pairs :
                    \A q2 \in pairs : q[1] < q2[1] \/ (q[1] = q2[1] /\ q[2] <= q2[2])
         IN AddEdges(AddEdge(g, p[1], p[2]), pairs \ {p})

ScaleFreeCore ==
    /\ pc = "sf_core"
    /\ adj' = AddEdges(adj, CorePairs)
    /\ degree_sum' = [v \in Nodes |-> Len(adj'[v])]
    /\ i' = CoreSize
    /\ targets' = {}
    /\ pc' = "sf_attach"
    /\ UNCHANGED <<others, config, j, lim, skips, rewires, dynvars>>

RECURSIVE SumTo(_, _)
SumTo(f, k) == IF k <= 0 THEN 0 ELSE f[k - 1] + SumTo(f, k - 1)

\* sum(degree_sum[:i]) or 1
TotalDeg(ds, node) == IF SumTo(ds, node) = 0 THEN 1 ELSE SumTo(ds, node)

\* lines 54-59 with r = r2 / 2: the first j < i whose cumulative degree
\* reaches r, or none (the for loop ends without a break)
Pick(ds, node, r2) ==
    LET hits == {c \in 0 .. (node - 1) : 2 * SumTo(ds, c + 1) >= r2}
    IN IF hits = {} THEN {} ELSE {CHOOSE c \in hits : \A d \in hits : c <= d}

\* Scale free: one pass of the while loop, lines 52-59.  r ranges over
\* [0, total_deg); the halves 0, 1/2, 1, ... meet every interval between
\* two cumulative sums.
ScaleFreeDraw ==
    /\ pc = "sf_attach"
    /\ i < n
    /\ Cardinality(targets) < Min(M, i)
    /\ \E r2 \in 0 .. (2 * TotalDeg(degree_sum, i) - 1) :
         targets' = targets \cup Pick(degree_sum, i, r2)
    /\ UNCHANGED <<others, config, adj, pc, i, j, lim, degree_sum, skips, rewires,
                   dynvars>>

\* The attachment loop linking the node to its first target only
AttachFirstOnly(g, node, ts) ==
    IF ts = {} THEN g
    ELSE AddEdge(g, node, CHOOSE x \in ts : \A y \in ts : x <= y)

RECURSIVE Attach(_, _, _)
Attach(g, node, ts) ==
    IF ts = {} THEN g
    ELSE LET t == CHOOSE x \in ts : \A y \in ts : x <= y
         IN Attach(AddEdge(g, node, t), node, ts \ {t})

\* Scale free: lines 60-64 for node i once its targets are chosen
ScaleFreeAttach ==
    /\ pc = "sf_attach"
    /\ i < n
    /\ Cardinality(targets) >= Min(M, i)
    /\ adj' = Attach(adj, i, targets)
    /\ degree_sum' = [v \in Nodes |->
                        IF v = i THEN degree_sum[v] + Cardinality(targets)
                        ELSE IF v \in targets THEN degree_sum[v] + 1
                        ELSE degree_sum[v]]
    /\ i' = i + 1
    /\ targets' = {}
    /\ UNCHANGED <<others, config, pc, j, lim, skips, rewires, dynvars>>

ScaleFreeDone ==
    /\ pc = "sf_attach"
    /\ i >= n
    /\ pc' = "dedup"
    /\ UNCHANGED <<others, config, adj, i, j, lim, targets, degree_sum, skips,
                   rewires, dynvars>>

\* Grid (and every unrecognised topology): node i of the loop, lines 66-74.
\* adj[i + 1] with i + 1 = n is a lookup of a missing key: KeyError.
GridStep ==
    /\ pc = "grid"
    /\ i < n
    /\ LET side == ISqrt(n)
           row == i \div side
           col == i % side
           right == col + 1 < side
           down == row + 1 < side /\ i + side < n
           g1 == IF right /\ i + 1 < n THEN AddEdge(adj, i, i + 1)
                 ELSE IF right THEN [adj EXCEPT ![i] = Append(@, i + 1)]
                 ELSE adj
       IN IF right /\ i + 1 >= n
            THEN /\ adj' = g1
                 /\ pc' = "error"
                 /\ i' = i
            ELSE /\ adj' = IF down THEN AddEdge(g1, i, i + side) ELSE g1
                 /\ pc' = IF i + 1 < n THEN "grid" ELSE "dedup"
                 /\ i' = i + 1
    /\ UNCHANGED <<others, config, j, lim, targets, degree_sum, skips, rewires,
                   dynvars>>

\* lines 77-79: adj[k] = list(set(adj[k])) for every node, then return
Dedup(g) == [v \in DOMAIN g |-> SetToList(Elems(g[v]))]

Deduplicate ==
    /\ pc = "dedup"
    /\ adj' = Dedup(adj)
    /\ pc' = "generated"
    /\ UNCHANGED <<others, config, i, j, lim, targets, degree_sum, skips, rewires,
                   dynvars>>

GenNext ==
    \/ ErdosRenyiStep
    \/ ErdosRenyiDone
    \/ SmallWorldLattice
    \/ SmallWorldRewire
    \/ SmallWorldDone
    \/ ScaleFreeCore
    \/ ScaleFreeDraw
    \/ ScaleFreeAttach
    \/ ScaleFreeDone
    \/ GridStep
    \/ Deduplicate

\* state at entry of _generate_graph(nn, t), line 13
GenEntry(nn, t) ==
    /\ n = nn
    /\ topology = t
    /\ adj = [v \in 0 .. (nn - 1) |-> <<>>]
    /\ pc = EntryPc(t)
    /\ i = 0
    /\ j = IF t = "random_erdos_renyi" THEN 1 ELSE 0
    /\ lim = 0
    /\ targets = {}
    /\ degree_sum = [v \in 0 .. (nn - 1) |-> 0]
    /\ skips = 0
    /\ rewires = 0

\* nothing else is running
OthersIdle ==
    /\ rng = [seed |-> 0, state |-> 0]
    /\ inv = <<>>
    /\ blotto = <<>>

DynIdle ==
    /\ OthersIdle
    /\ strategies = <<>>
    /\ initial = <<>>
    /\ r = 0
    /\ round_data = <<>>
    /\ summary = <<>>

InitGen ==
    /\ \E nn \in 1 .. MaxGenN, t \in Topologies : GenEntry(nn, t)
    /\ init_frac = <<1, 10>>
    /\ rounds = 1
    /\ payoff = <<3, 4, 0>>
    /\ DynIdle

SpecGen == InitGen /\ [][GenNext]_vars

\* --------------------------------------------------------------- dynamics
Fractions == {<<1, 10>>, <<2, 5>>, <<1, 1>>}
Payoffs == {<<3, 4, 0>>, <<5, 5, 5>>, <<0, 0, 1>>, <<1, 1, 0>>}

\* sum(strategies): the entries are 0 or 1, so the sum is the number of 1s
SumVec(s) == Cardinality({v \in DOMAIN s : s[v] = 1})

\* int(n * init_frac) without the floor of one adopter
AdopterCountNoFloor(nn, f) == (nn * f[1]) \div f[2]

\* max(1, int(n * init_frac)), line 146
AdopterCount(nn, f) == Max(1, (nn * f[1]) \div f[2])

\* round(num / den, 4) in units of 1 / RateScale (ties to even, as round())
Round4(num, den) ==
    LET q == (RateScale * num) \div den
        rem == (RateScale * num) % den
    IN IF 2 * rem > den THEN q + 1
       ELSE IF 2 * rem < den THEN q
       ELSE IF q % 2 = 0 THEN q ELSE q + 1

\* lines 144-148: random.sample(range(n), k) is any k-subset of the nodes;
\* a sample larger than the population raises ValueError
InitStrategies ==
    /\ pc = "generated"
    /\ LET k == AdopterCount(n, init_frac)
       IN IF k > n
            THEN /\ pc' = "error"
                 /\ UNCHANGED <<strategies, initial>>
            ELSE /\ \E adopters \in SUBSET Nodes :
                      /\ Cardinality(adopters) = k
                      /\ strategies' = [v \in Nodes |->
                                          IF v \in adopters THEN 1 ELSE 0]
                 /\ initial' = strategies'
                 /\ pc' = "rounds"
    /\ r' = 0
    /\ round_data' = <<>>
    /\ UNCHANGED <<others, config, adj, i, j, lim, targets, degree_sum, skips,
                   rewires, summary>>

\* lines 166-167: neighbours of `node` playing `val` in vector s
CountPlaying(g, s, node, val) ==
    Cardinality({k \in 1 .. Len(g[node]) : s[g[node][k]] = val})

\* The comparison resolving a payoff tie towards B
BestTieToB(g, s, node, pay) ==
    LET n_A == CountPlaying(g, s, node, 0)
        n_B == CountPlaying(g, s, node, 1)
        payoff_if_A == n_A * pay[1] + n_B * pay[3]
        payoff_if_B == n_A * pay[3] + n_B * pay[2]
    IN IF payoff_if_A > payoff_if_B THEN 0 ELSE 1

\* lines 170-173
Best(g, s, node, pay) ==
    LET n_A == CountPlaying(g, s, node, 0)
        n_B == CountPlaying(g, s, node, 1)
        payoff_if_A == n_A * pay[1] + n_B * pay[3]
        payoff_if_B == n_A * pay[3] + n_B * pay[2]
    IN IF payoff_if_A >= payoff_if_B THEN 0 ELSE 1

\* The node loop updating in place: counts read the partly updated vector
RECURSIVE UpdateFromInPlace(_, _, _, _, _, _)
UpdateFromInPlace(g, s, new_strategies, switches, node, pay) ==
    IF node >= n
      THEN [new_strategies |-> new_strategies, switches |-> switches]
    ELSE IF Len(g[node]) = 0
      THEN UpdateFromInPlace(g, s, new_strategies, switches, node + 1, pay)
    ELSE LET best == Best(g, new_strategies, node, pay)
         IN UpdateFromInPlace(g, s, [new_strategies EXCEPT ![node] = best],
                IF best # s[node] THEN switches + 1 ELSE switches,
                node + 1, pay)

\* The node loop counting only the switches from A to B
RECURSIVE UpdateFromCountAdoptions(_, _, _, _, _, _)
UpdateFromCountAdoptions(g, s, new_strategies, switches, node, pay) ==
    IF node >= n
      THEN [new_strategies |-> new_strategies, switches |-> switches]
    ELSE IF Len(g[node]) = 0
      THEN UpdateFromCountAdoptions(g, s, new_strategies, switches,
                                    node + 1, pay)
    ELSE LET best == Best(g, s, node, pay)
         IN UpdateFromCountAdoptions(g, s,
                [new_strategies EXCEPT ![node] = best],
                IF best = 1 /\ s[node] = 0 THEN switches + 1 ELSE switches,
                node + 1, pay)

\* lines 161-176: the node loop from `node` on; every count reads the
\* previous vector s, the results go to new_strategies and switches
RECURSIVE UpdateFrom(_, _, _, _, _, _)
UpdateFrom(g, s, new_strategies, switches, node, pay) ==
    IF node >= n
      THEN [new_strategies |-> new_strategies, switches |-> switches]
    ELSE IF Len(g[node]) = 0
      THEN UpdateFrom(g, s, new_strategies, switches, node + 1, pay)
    ELSE LET best == Best(g, s, node, pay)
         IN UpdateFrom(g, s, [new_strategies EXCEPT ![node] = best],
                IF best # s[node] THEN switches + 1 ELSE switches,
                node + 1, pay)

\* lines 158-176: new_strategies = list(strategies), switches = 0, the loop
Transition(g, s, pay) == UpdateFrom(g, s, s, 0, 0, pay)

\* The stop test taken from round 3 on
StableFromThree(switches, rnd) == switches = 0 /\ rnd >= 3

\* The stop test without the switch count
StableIgnoringSwitches(switches, rnd) == rnd > 3

\* line 193
Stable(switches, rnd) == switches = 0 /\ rnd > 3

\* One pass of the round loop, lines 157-194
Round ==
    /\ pc = "rounds"
    /\ r < rounds
    /\ LET res == Transition(adj, strategies, payoff)
       IN /\ strategies' = res.new_strategies
          /\ r' = r + 1
          /\ round_data' = Append(round_data,
                [round_num |-> r + 1,
                 node_strategies |-> res.new_strategies,
                 switches |-> res.switches,
                 adoption_rate |-> Round4(SumVec(res.new_strategies), n)])
          /\ pc' = IF Stable(res.switches, r + 1) \/ r + 1 >= rounds
                     THEN "summary" ELSE "rounds"
    /\ UNCHANGED <<others, config, adj, i, j, lim, targets, degree_sum, skips,
                   rewires, initial, summary>>

\* The cascade test with >= in place of >
CascadeAtHalf(count, nn) == 2 * count >= nn

\* line 219
Cascade(count, nn) == 2 * count > nn

\* The threshold with the default 0 in place of 0.5
ThresholdZeroDefault(pay) ==
    LET denom == pay[1] - pay[3] + pay[2] - pay[3]
    IN IF denom # 0 THEN <<pay[1] - pay[3], denom>> ELSE <<0, 1>>

\* lines 200-201: the threshold as the fraction <<numerator, denominator>>
Threshold(pay) ==
    LET denom == pay[1] - pay[3] + pay[2] - pay[3]
    IN IF denom # 0 THEN <<pay[1] - pay[3], denom>> ELSE <<1, 2>>

\* round(threshold, 4), line 221, in units of 1 / RateScale
RoundedThreshold(q) ==
    IF q[2] < 0 THEN Round4(0 - q[1], 0 - q[2]) ELSE Round4(q[1], q[2])

\* lines 197-224
Summarise ==
    /\ pc = "summary"
    /\ summary' = [final_adoption_rate |-> Round4(SumVec(strategies), n),
                   cascade_occurred |-> Cascade(SumVec(strategies), n),
                   rounds_to_stable |-> Len(round_data),
                   threshold |-> Threshold(payoff),
                   predicted_threshold |-> RoundedThreshold(Threshold(payoff)),
                   topology |-> topology]
    /\ pc' = "done"
    /\ UNCHANGED <<others, config, adj, i, j, lim, targets, degree_sum, skips,
                   rewires, strategies, initial, r, round_data>>

Next ==
    \/ ErdosRenyiStep
    \/ ErdosRenyiDone
    \/ SmallWorldLattice
    \/ SmallWorldRewire
    \/ SmallWorldDone
    \/ ScaleFreeCore
    \/ ScaleFreeDraw
    \/ ScaleFreeAttach
    \/ ScaleFreeDone
    \/ GridStep
    \/ Deduplicate
    \/ InitStrategies
    \/ Round
    \/ Summarise

\* compute(config): the randomised generators on up to MaxRandomN nodes,
\* the grid on up to MaxN
Init ==
    /\ \E nn \in 1 .. MaxN, t \in Topologies :
         /\ (t \in KnownTopologies \ {"grid"}) => nn <= MaxRandomN
         /\ GenEntry(nn, t)
    /\ init_frac \in Fractions
    /\ rounds \in 1 .. MaxRounds
    /\ payoff \in Payoffs
    /\ DynIdle

Spec == Init /\ [][Next]_vars

\* compute() on the grid, for the progress of the round loop.  The code is
\* sequential and runs without suspension points: a step that can be taken
\* is eventually taken.
InitLive ==
    /\ \E nn \in 1 .. MaxN, t \in {"grid", "hexagonal"} : GenEntry(nn, t)
    /\ init_frac \in Fractions
    /\ rounds \in 1 .. MaxRounds
    /\ payoff \in Payoffs
    /\ DynIdle

NextLive ==
    \/ GridStep
    \/ Deduplicate
    \/ InitStrategies
    \/ Round
    \/ Summarise

LiveSpec == InitLive /\ [][NextLive]_vars /\ WF_vars(NextLive)

\* summary computation on large networks: the state of compute() at line 196
\* after one round on an Erdos-Renyi graph in which every pair was left out
\* (possible for n > 6), with `count` initial adopters, all isolated
SummaryEntry(nn, count) ==
    LET vec == [v \in 0 .. (nn - 1) |-> IF v < count THEN 1 ELSE 0]
    IN /\ n = nn
       /\ topology = "random_erdos_renyi"
       /\ init_frac = <<count, nn>>
       /\ rounds = 1
       /\ payoff = <<3, 4, 0>>
       /\ adj = [v \in 0 .. (nn - 1) |-> <<>>]
       /\ pc = "summary"
       /\ i = nn - 1
       /\ j = nn
       /\ lim = 0
       /\ targets = {}
       /\ degree_sum = [v \in 0 .. (nn - 1) |-> 0]
       /\ skips = (nn * (nn - 1)) \div 2
       /\ rewires = 0
       /\ strategies = vec
       /\ initial = vec
       /\ r = 1
       /\ round_data = <<[round_num |-> 1, node_strategies |-> vec,
                          switches |-> 0,
                          adoption_rate |-> Round4(count, nn)]>>
       /\ summary = <<>>
       /\ OthersIdle

InitSummary ==
    \E nn \in (RateScale - Around) .. (RateScale + Around) :
      \E count \in (nn \div 2 - Window) .. (nn \div 2 + Window) :
        SummaryEntry(nn, count)

NextSummary == Summarise

SpecSummary == InitSummary /\ [][NextSummary]_vars

\* ---------------------------------------------- concurrent invocations
\* `import random` (line 3): every call of random.random, random.randint and
\* random.sample in this module reads and advances the one module-level
\* generator of the process.  The generator is a deterministic function of
\* its seed; a 4-bit linear congruential step stands for it here.
Invocations == {1, 2}
Seeds == 0 .. 15

RngNext(x) == (5 * x + 3) % 16

\* _randbelow(m) on the generator state x
RandBelow(x, m) == x % m

\* one pass of random.sample's selection loop over the pool:
\* j = _randbelow(n - t); result[t] = pool[j]; pool[j] = pool[n - t - 1]
SamplePick(call, x) ==
    LET left == call.n - Len(call.result)
        jj == RandBelow(x, left) + 1
    IN [call EXCEPT !.result = Append(@, call.pool[jj]),
                    !.pool = [@ EXCEPT ![jj] = call.pool[left]]]

\* the sample of an invocation that runs alone on a generator in state x
RECURSIVE SampleAlone(_, _, _)
SampleAlone(call, k, x) ==
    IF Len(call.result) >= k THEN call.result
    ELSE SampleAlone(SamplePick(call, x), k, RngNext(x))

\* compute() entered with n_nodes = nn and initial_adopters = f on the grid
\* (generation draws nothing), at random.sample of line 146
Invocation(nn, f) ==
    [n |-> nn, frac |-> f, pool |-> [v \in 1 .. nn |-> v - 1],
     result |-> <<>>, pc |-> "sample"]

\* invocation p takes its next draw of line 146 from the shared generator
SampleStep(p) ==
    /\ inv[p].pc = "sample"
    /\ LET k == AdopterCount(inv[p].n, inv[p].frac)
           call == SamplePick(inv[p], rng.state)
       IN inv' = [inv EXCEPT ![p] =
                     [call EXCEPT !.pc = IF Len(call.result) >= k
                                           THEN "done" ELSE "sample"]]
    /\ rng' = [rng EXCEPT !.state = RngNext(@)]
    /\ UNCHANGED <<config, adj, pc, i, j, lim, targets, degree_sum, skips,
                   rewires, dynvars, blotto>>

NextConcurrent == \E p \in Invocations : SampleStep(p)

\* two invocations started after random.seed(seed)
InitConcurrent ==
    /\ GenEntry(1, "grid")
    /\ init_frac = <<1, 10>>
    /\ rounds = 1
    /\ payoff = <<3, 4, 0>>
    /\ strategies = <<>>
    /\ initial = <<>>
    /\ r = 0
    /\ round_data = <<>>
    /\ summary = <<>>
    /\ blotto = <<>>
    /\ \E sd \in Seeds : rng = [seed |-> sd, state |-> sd]
    /\ inv \in [Invocations ->
                  {Invocation(nn, f) : nn \in 1 .. MaxConcN, f \in Fractions}]

SpecConcurrent == InitConcurrent /\ [][NextConcurrent]_vars

\* ------------------------------------------------------- Colonel Blotto
\* colonel_blotto.py, _random_allocation(troops, fields), lines 12-19

\* sorted(random.sample(range(1, troops + fields), fields - 1)): every
\* increasing list of fields - 1 distinct cut points
Cuts(troops, fields) ==
    {SetToList(S) : S \in {T \in SUBSET (1 .. (troops + fields - 1)) :
                              Cardinality(T) = fields - 1}}

\* lines 14-18: the gaps cuts[0], cuts[i] - cuts[i - 1], and
\* troops + fields - 1 - cuts[-1]
Gaps(troops, fields, cuts) ==
    [k \in 1 .. (Len(cuts) + 1) |->
        IF k = 1 THEN cuts[1]
        ELSE IF k <= Len(cuts) THEN cuts[k] - cuts[k - 1]
        ELSE troops + fields - 1 - cuts[Len(cuts)]]

\* line 19: [max(0, a - 1) for a in alloc]
RandomAllocation(troops, fields, cuts) ==
    LET alloc == Gaps(troops, fields, cuts)
    IN [k \in 1 .. Len(alloc) |-> Max(0, alloc[k] - 1)]

\* one call of _random_allocation, for either colonel
BlottoAllocate ==
    /\ blotto.pc = "call"
    /\ \E cuts \in Cuts(blotto.troops, blotto.fields) :
         blotto' = [blotto EXCEPT
                       !.cuts = cuts,
                       !.alloc = RandomAllocation(blotto.troops,
                                                  blotto.fields, cuts),
                       !.pc = "returned"]
    /\ UNCHANGED <<config, adj, pc, i, j, lim, targets, degree_sum, skips,
                   rewires, dynvars, rng, inv>>

NextBlotto == BlottoAllocate

InitBlotto ==
    /\ GenEntry(1, "grid")
    /\ init_frac = <<1, 10>>
    /\ rounds = 1
    /\ payoff = <<3, 4, 0>>
    /\ strategies = <<>>
    /\ initial = <<>>
    /\ r = 0
    /\ round_data = <<>>
    /\ summary = <<>>
    /\ rng = [seed |-> 0, state |-> 0]
    /\ inv = <<>>
    /\ \E troops \in 1 .. MaxTroops, fields \in 2 .. MaxFields :
         blotto = [troops |-> troops, fields |-> fields, cuts |-> <<>>,
                   alloc |-> <<>>, pc |-> "call"]

SpecBlotto == InitBlotto /\ [][NextBlotto]_vars

\* ------------------------------------------------------------------ claims
Irreflexive(g) == \A v \in DOMAIN g : v \notin Elems(g[v])
Symmetric(g) ==
    \A v \in DOMAIN g : \A w \in Elems(g[v]) :
        w \in DOMAIN g /\ v \in Elems(g[w])
DuplicateFree(g) == \A v \in DOMAIN g : Cardinality(Elems(g[v])) = Len(g[v])
GridLike == topology \notin {"random_erdos_renyi", "small_world", "scale_free"}

\* C1: for every topology and n >= 3, the adjacency returned by generation
\* is irreflexive, symmetric and duplicate-free, whatever the draws.
C1_GraphValid ==
    (pc = "generated" /\ n >= 3) =>
        /\ Irreflexive(adj)
        /\ Symmetric(adj)
        /\ DuplicateFree(adj)

\* a small-world graph was returned after at least one rewiring
C1_Witness ==
    /\ pc = "generated"
    /\ topology = "small_world"
    /\ n >= 3
    /\ rewires > 0

\* C2: generation followed by the dynamics always runs to completion; no
\* error state (a lookup of a node outside 0..n-1) is reachable.
C2_NoError == pc # "error"

\* the best response of node v to the vector s, over the neighbour set
BestResponse(s, v) ==
    LET n_A == Cardinality({w \in Elems(adj[v]) : s[w] = 0})
        n_B == Cardinality({w \in Elems(adj[v]) : s[w] = 1})
    IN IF Elems(adj[v]) = {} THEN s[v]
       ELSE IF n_A * payoff[1] + n_B * payoff[3]
                 >= n_A * payoff[3] + n_B * payoff[2] THEN 0
       ELSE 1

Previous(k) == IF k = 1 THEN initial ELSE round_data[k - 1].node_strategies

\* C3: every round record is the synchronous best response to the previous
\* vector: A when n_A*pAA + n_B*pAB >= n_A*pAB + n_B*pBB, else B, and a node
\* without neighbours keeps its strategy; nothing depends on visiting order.
C3_SynchronousBestResponse ==
    \A k \in 1 .. Len(round_data) :
        round_data[k].node_strategies =
            [v \in Nodes |-> BestResponse(Previous(k), v)]

\* a round in which two neighbours switched at once
C3_Witness ==
    /\ Len(round_data) >= 1
    /\ \E v \in Nodes : \E w \in Elems(adj[v]) :
         /\ initial[v] # round_data[1].node_strategies[v]
         /\ initial[w] # round_data[1].node_strategies[w]

\* C4 as stated: a zero-switch round r >= 3 is the last record of the trace.
C4_StopsFromRoundThree ==
    \A k \in 1 .. Len(round_data) :
        (k >= 3 /\ round_data[k].switches = 0) => k = Len(round_data)

\* C4 amended: a zero-switch round r > 3 is the last record; a zero-switch
\* round 1, 2 or 3 never stops the run, and a zero-switch round 3 under a
\* budget above 3 gives a trace of exactly 4 records.
C4_StopsAfterRoundThree ==
    /\ \A k \in 1 .. Len(round_data) :
         (k > 3 /\ round_data[k].switches = 0) => k = Len(round_data)
    /\ pc = "done" =>
         \A k \in 1 .. Len(round_data) :
            (k <= 3 /\ k < rounds /\ round_data[k].switches = 0)
                => Len(round_data) > k
    /\ (pc = "done" /\ rounds > 3 /\ Len(round_data) >= 3
          /\ round_data[3].switches = 0)
         => Len(round_data) = 4

\* a finished run with budget 5 whose round 3 had no switch: 4 records
C4_Witness ==
    /\ pc = "done"
    /\ rounds = MaxRounds
    /\ Len(round_data) = 4
    /\ round_data[3].switches = 0

\* C5: after a zero-switch round past round 3 the engine has stopped, no
\* record follows, and one more transition step of the vector returns the
\* same vector with zero switches.
C5_StopAtFixedPoint ==
    \A k \in 1 .. Len(round_data) :
        (k > 3 /\ round_data[k].switches = 0) =>
            /\ k = Len(round_data)
            /\ pc \in {"summary", "done"}
            /\ strategies = round_data[k].node_strategies
            /\ Transition(adj, strategies, payoff) =
                   [new_strategies |-> strategies, switches |-> 0]
            /\ \A v \in Nodes : BestResponse(strategies, v) = strategies[v]

\* the engine stopped early on a mixed vector that had moved before
C5_Witness ==
    /\ pc = "done"
    /\ Len(round_data) = 4
    /\ rounds > 4
    /\ round_data[4].switches = 0
    /\ round_data[1].switches > 0
    /\ \E v \in Nodes : \E w \in Nodes : strategies[v] # strategies[w]

C6_Trace ==
    pc = "done" =>
        /\ 1 <= Len(round_data)
        /\ Len(round_data) <= rounds
        /\ \A k \in 1 .. Len(round_data) : round_data[k].round_num = k
        /\ summary.rounds_to_stable = Len(round_data)
        /\ (\A k \in 1 .. Len(round_data) : round_data[k].switches # 0)
              => Len(round_data) = rounds

\* C6: the dynamics terminate with k records, 1 <= k <= rounds, numbered
\* 1..k, rounds_to_stable = k, and k = rounds when no round has zero
\* switches.
C6_TerminatesWithinBudget ==
    /\ [](C6_Trace)
    /\ (pc = "rounds") ~> (pc = "done")

\* an oscillating run used the whole budget of 5 rounds
C6_Witness ==
    /\ pc = "done"
    /\ rounds = MaxRounds
    /\ Len(round_data) = MaxRounds
    /\ \A k \in 1 .. Len(round_data) : round_data[k].switches # 0
    /\ round_data[1].node_strategies = round_data[3].node_strategies
    /\ round_data[1].node_strategies # round_data[2].node_strategies

\* adjacency in the row-major side x side lattice
LatticeAdjacent(a, b, side) ==
    /\ a < side * side
    /\ b < side * side
    /\ \/ (a \div side = b \div side /\ (a - b = 1 \/ b - a = 1))
       \/ (a % side = b % side /\ (a - b = side \/ b - a = side))

\* C7: the grid generator returns exactly the side x side lattice on the
\* nodes below side*side, and every node from side*side on has no neighbour.
C7_GridExact ==
    (pc = "generated" /\ GridLike) =>
        \A a \in Nodes : \A b \in Nodes :
            (b \in Elems(adj[a])) <=> LatticeAdjacent(a, b, ISqrt(n))

\* C8: under the grid topology every node with index >= side*side holds its
\* initial strategy in every round record.
C8_IsolatedInvariance ==
    GridLike =>
        \A k \in 1 .. Len(round_data) : \A v \in Nodes :
            v >= ISqrt(n) * ISqrt(n)
                => round_data[k].node_strategies[v] = initial[v]

\* round(num / den), ties to even
RoundNearest(num, den) ==
    LET q == num \div den
        rem == num % den
    IN IF 2 * rem > den THEN q + 1
       ELSE IF 2 * rem < den THEN q
       ELSE IF q % 2 = 0 THEN q ELSE q + 1

Adopters == {v \in Nodes : initial[v] = 1}

\* C9 as stated: the initial vector has max(1, round(n * init_fraction))
\* entries B, rounding to the nearest integer.
C9_RoundedAdopters ==
    initial # <<>> =>
        /\ Cardinality(Adopters)
             = Max(1, RoundNearest(n * init_frac[1], init_frac[2]))
        /\ \A v \in Nodes : initial[v] \in {0, 1}

\* C9 amended: the initial vector has max(1, int(n * init_fraction)) entries
\* B, the product truncated toward zero, and all other entries A.
C9_TruncatedAdopters ==
    initial # <<>> =>
        /\ \E k \in 0 .. n :
             /\ k * init_frac[2] <= n * init_frac[1]
             /\ n * init_frac[1] < (k + 1) * init_frac[2]
             /\ Cardinality(Adopters) = IF k >= 1 THEN k ELSE 1
        /\ \A v \in Nodes : initial[v] \in {0, 1}

\* n * init_fraction = 0.6 gives one adopter, against a truncation of 0
C9_Witness ==
    /\ initial # <<>>
    /\ n = 6
    /\ init_frac = <<1, 10>>
    /\ Cardinality(Adopters) = 1

\* C10 as stated: cascade_occurred iff the reported (rounded) final adoption
\* rate is greater than 0.5, for every n.
C10_CascadeIffReportedMajority ==
    pc = "done" =>
        (summary.cascade_occurred
            <=> 2 * summary.final_adoption_rate > RateScale)

\* C10 amended: for n <= 10000, cascade_occurred iff the reported final
\* adoption rate is greater than 0.5.
C10_CascadeIffReportedMajorityUpTo10000 ==
    (pc = "done" /\ n <= RateScale) =>
        (summary.cascade_occurred
            <=> 2 * summary.final_adoption_rate > RateScale)

\* n = 9999 with 5000 B: the rate 0.50005... is reported as 0.5001
C10_Witness ==
    /\ pc = "done"
    /\ n = RateScale - 1
    /\ SumVec(strategies) = RateScale \div 2
    /\ summary.cascade_occurred
    /\ summary.final_adoption_rate = RateScale \div 2 + 1

\* C11: the predicted threshold is (pAA - pAB) / ((pAA - pAB) + (pBB - pAB))
\* when that denominator is not zero and 0.5 when it is; it is a function of
\* the three payoffs alone: (3, 4, 0) gives 3/7, reported as 0.4286, and
\* (5, 5, 5) gives 0.5.
C11_ThresholdFormula ==
    pc = "done" =>
        LET q == summary.threshold
            num == payoff[1] - payoff[3]
            den == (payoff[1] - payoff[3]) + (payoff[2] - payoff[3])
            reported == summary.predicted_threshold
        IN /\ q[2] # 0
           /\ den # 0 => q[1] * den = num * q[2]
           /\ den = 0 => 2 * q[1] = q[2]
           /\ payoff = <<3, 4, 0>> => (7 * q[1] = 3 * q[2] /\ reported = 4286)
           /\ payoff = <<5, 5, 5>> => reported = RateScale \div 2
           \* the reported value is q to within half a unit of the 4th decimal
           /\ LET d == 2 * (RateScale * q[1] * q[2] - reported * q[2] * q[2])
              IN d <= q[2] * q[2] /\ 0 - d <= q[2] * q[2]

\* a result for the payoffs (5, 5, 5), whose denominator is zero
C11_Witness ==
    /\ pc = "done"
    /\ payoff = <<5, 5, 5>>
    /\ summary.threshold = <<1, 2>>

\* C13: concurrent invocations share no mutable state, the random source
\* included: each returns the result (here the sample of initial adopters,
\* which fixes the initial vector and the trace) it returns when run alone
\* with the same configuration and seed.
C13_IsolatedInvocations ==
    \A p \in Invocations :
        inv[p].pc = "done" =>
            inv[p].result =
                SampleAlone(Invocation(inv[p].n, inv[p].frac),
                            AdopterCount(inv[p].n, inv[p].frac), rng.seed)

\* the pairs the grid branch links when it runs to its end: i and i + 1 when
\* i's column is not the last, i and i + side when i's row is not the last
\* and i + side is a node
GridLinked(a, b, nn) ==
    LET side == ISqrt(nn)
        lo == Min(a, b)
        hi == Max(a, b)
    IN \/ hi = lo + 1 /\ (lo % side) + 1 < side
       \/ hi = lo + side /\ (lo \div side) + 1 < side /\ hi < nn

\* C14: for every n >= 1 a topology name outside the four known ones is
\* never surfaced as an error, and generation returns exactly the graph the
\* grid generator returns for the same n.
C14_UnknownFallsBackToGrid ==
    topology \notin KnownTopologies =>
        /\ pc # "error"
        /\ pc = "generated" =>
               \A a \in Nodes : \A b \in Nodes :
                   (b \in Elems(adj[a])) <=> GridLinked(a, b, n)

Coordination == payoff[1] > payoff[3] /\ payoff[2] > payoff[3]

\* the number of v's neighbours playing B in the vector s
NeighboursB(s, v) == Cardinality({w \in Elems(adj[v]) : s[w] = 1})

\* C15: in a coordination game (pAA > pAB, pBB > pAB) a node with d >= 1
\* neighbours, n_B of which played B in the previous round, plays B next iff
\* n_B / d > q for the predicted threshold q; at n_B / d = q it plays A.
C15_ThresholdAgreesWithRule ==
    Coordination =>
        \A k \in 1 .. Len(round_data) : \A v \in Nodes :
            LET d == Cardinality(Elems(adj[v]))
                n_B == NeighboursB(Previous(k), v)
                q == Threshold(payoff)
            IN d >= 1 =>
                 /\ q[2] > 0
                 /\ (round_data[k].node_strategies[v] = 1)
                        <=> (n_B * q[2] > d * q[1])
                 /\ pc = "done" => q = summary.threshold

\* a node whose neighbourhood sat exactly at the threshold took A, and
\* another one above the threshold took B
C15_Witness ==
    /\ Coordination
    /\ Len(round_data) >= 1
    /\ \E v \in Nodes :
          /\ Elems(adj[v]) # {}
          /\ NeighboursB(initial, v) * Threshold(payoff)[2]
                 = Cardinality(Elems(adj[v])) * Threshold(payoff)[1]
          /\ NeighboursB(initial, v) > 0
          /\ round_data[1].node_strategies[v] = 0
    /\ \E v \in Nodes :
          /\ initial[v] = 0
          /\ round_data[1].node_strategies[v] = 1

\* C16: for n = 1 and n = 2 and each of the four topologies generation
\* completes and returns an irreflexive, symmetric, duplicate-free
\* adjacency; for n = 1 the single node has no neighbours.
C16_DegenerateSizesValid ==
    (n <= 2 /\ topology \in KnownTopologies) =>
        /\ pc # "error"
        /\ pc = "generated" =>
               /\ Irreflexive(adj)
               /\ Symmetric(adj)
               /\ DuplicateFree(adj)
               /\ n = 1 => adj[0] = <<>>

SmallWorldFrom5 == topology = "small_world" /\ n >= 5

\* the number of (node, neighbour) list entries of g: twice the edges
RECURSIVE EntriesBelow(_, _)
EntriesBelow(g, k) ==
    IF k <= 0 THEN 0 ELSE Len(g[k - 1]) + EntriesBelow(g, k - 1)

Entries(g) == EntriesBelow(g, n)

\* g2 is g with the one edge {node, old} replaced by {node, new}
EdgeReplaced(g, g2, node, old, new) ==
    /\ old \in Elems(g[node])
    /\ new # node
    /\ new \notin Elems(g[node])
    /\ Elems(g2[node]) = (Elems(g[node]) \ {old}) \cup {new}
    /\ Elems(g2[old]) = Elems(g[old]) \ {node}
    /\ Elems(g2[new]) = Elems(g[new]) \cup {node}
    /\ \A v \in Nodes \ {node, old, new} : g2[v] = g[v]
    /\ \A v \in Nodes \ {old, new} : Len(g2[v]) = Len(g[v])
    /\ Len(g2[old]) = Len(g[old]) - 1
    /\ Len(g2[new]) = Len(g[new]) + 1

\* from the end of the lattice loop on the adjacency is symmetric, without
\* self-loop or duplicate, and has 2n edges
C17_RewiredValid ==
    (SmallWorldFrom5 /\ pc \in {"sw_rewire", "dedup", "generated"}) =>
        /\ Symmetric(adj)
        /\ Irreflexive(adj)
        /\ DuplicateFree(adj)
        /\ Entries(adj) = 4 * n

\* a rewiring attempt changes nothing or replaces one edge at node i, and
\* the deduplication step removes no entry
C17_RewireStep ==
    /\ (SmallWorldFrom5 /\ pc = "sw_rewire") =>
          \/ adj' = adj
          \/ \E old \in Elems(adj[i]) \ Elems(adj'[i]) :
             \E new \in Elems(adj'[i]) \ Elems(adj[i]) :
                 EdgeReplaced(adj, adj', i, old, new)
    /\ (SmallWorldFrom5 /\ pc = "dedup" /\ pc' = "generated") =>
          \A v \in Nodes : /\ Elems(adj'[v]) = Elems(adj[v])
                           /\ Len(adj'[v]) = Len(adj[v])

\* C17: in small-world generation with n >= 5 every rewiring attempt either
\* leaves the adjacency unchanged or replaces exactly one edge {i, old} by
\* {i, new} in both endpoints' lists; so the adjacency stays symmetric with
\* exactly 2n edges and the final deduplication removes nothing.
C17_RewiringPreservesEdges ==
    /\ [](SmallWorldFrom5 => pc # "error")
    /\ []C17_RewiredValid
    /\ [][C17_RewireStep]_vars

\* a small-world graph returned after two rewirings, one of them at node 0
C17_Witness ==
    /\ pc = "generated"
    /\ SmallWorldFrom5
    /\ rewires >= 2
    /\ \E w \in Elems(adj[0]) : w \notin {1, 2, n - 1, n - 2}

ScaleFreeFrom3 == topology = "scale_free" /\ n >= 3

\* the nodes reachable from the set seen along the edges of g
RECURSIVE ReachableFrom(_, _)
ReachableFrom(g, seen) ==
    LET more == seen \cup UNION {Elems(g[v]) : v \in seen}
    IN IF more = seen THEN seen ELSE ReachableFrom(g, more)

Connected(g) == ReachableFrom(g, {0}) = DOMAIN g

\* while node i attaches: the core 0, 1, 2 is complete, every counter equals
\* the node's number of neighbours, the targets are at most 2 nodes below i;
\* in the returned graph: connected, degrees >= 2, 2n - 3 edges
C18_AttachState ==
    ScaleFreeFrom3 =>
        /\ pc # "error"
        /\ pc \in {"sf_attach", "dedup", "generated"} =>
             /\ \A a \in 0 .. 2 : \A b \in 0 .. 2 :
                    a # b => b \in Elems(adj[a])
             /\ Symmetric(adj)
             /\ DuplicateFree(adj)
        /\ pc = "sf_attach" =>
             /\ i >= 3
             /\ \A v \in Nodes : degree_sum[v] = Len(adj[v])
             /\ \A v \in Nodes : v >= i => adj[v] = <<>>
             /\ targets \subseteq 0 .. (i - 1)
             /\ Cardinality(targets) <= 2
        /\ pc = "generated" =>
             /\ Connected(adj)
             /\ \A v \in Nodes : Len(adj[v]) >= 2
             /\ Entries(adj) = 2 * (2 * n - 3)

\* node i is attached, in increasing order, to exactly 2 distinct targets
\* below it, and its own list holds exactly those
C18_AttachStep ==
    (ScaleFreeFrom3 /\ pc = "sf_attach" /\ adj' # adj) =>
        /\ i' = i + 1
        /\ Cardinality(targets) = 2
        /\ Elems(adj'[i]) = targets
        /\ Len(adj'[i]) = 2
        /\ \A t \in targets : Elems(adj'[t]) = Elems(adj[t]) \cup {i}
        /\ \A v \in Nodes \ (targets \cup {i}) : adj'[v] = adj[v]

\* C18: in scale-free generation with n >= 3, nodes 0, 1, 2 form a complete
\* core; for each node i = 3..n-1 in increasing order the degree counter of
\* every j < i equals j's number of neighbours when i starts attaching, the
\* rejection loop ends with exactly 2 distinct targets below i, and the
\* counters follow the new edges; the final graph is connected, every node
\* has degree >= 2 and there are exactly 2n - 3 edges.
C18_PreferentialAttachment ==
    /\ []C18_AttachState
    /\ [][C18_AttachStep]_vars

\* a returned scale-free graph in which node 0 was chosen by every later node
C18_Witness ==
    /\ pc = "generated"
    /\ ScaleFreeFrom3
    /\ n >= 6
    /\ Len(adj[0]) = n - 1
    /\ \E v \in Nodes : Len(adj[v]) = 2

RECURSIVE SumList(_)
SumList(s) == IF s = <<>> THEN 0 ELSE Head(s) + SumList(Tail(s))

\* C19: for every troops >= 1, fields >= 2 and every choice of cut points,
\* _random_allocation returns exactly `fields` non-negative integers whose
\* sum equals `troops`.
C19_WholeArmyAllocated ==
    blotto.pc = "returned" =>
        /\ Len(blotto.alloc) = blotto.fields
        /\ \A k \in 1 .. Len(blotto.alloc) : blotto.alloc[k] >= 0
        /\ SumList(blotto.alloc) = blotto.troops

====
